---- MODULE Spec2Model ----
(***************************************************************************)
(* AllHWCIAPIHandlerImpl (python/tvm/contrib/allhw/ci_api_server.py): the  *)
(* transport that adapts the All-Hardware CI batch service (create a task, *)
(* poll its status, fetch its output) to flash / open_transport /          *)
(* write_transport / read_transport / close_transport.                     *)
(*                                                                         *)
(* The handler object is the record `self`.  flash, open_transport and     *)
(* close_transport are single steps.  read_transport and write_transport   *)
(* are a call step (the precondition checks, the implicit reopen, the      *)
(* deadline) followed by the iterations of their polling loop, an          *)
(* iteration being the request with the service's answer (any response of  *)
(* a bounded set) and then the rest of the loop body.                      *)
(* An HTTP request is a blocking call that returns a status code and a     *)
(* body.  Calls on one handler are sequential: no operation starts while   *)
(* another is in its loop.                                                 *)
(***************************************************************************)
EXTENDS Integers, Sequences, FiniteSets, TLC

\* ------------------------------------------------------------- bounds
\* longest task output, in bytes
MaxOut == 2
\* largest byte count a read asks for
MaxN == 3
\* largest finite timeout_sec, in sleep intervals
MaxTimeout == 1
\* longest time one loop iteration takes besides its sleep, in sleep intervals
MaxLatency == 1

\* ---------------------------------------------------------- constants
\* time.sleep(0.5): the unit of the model's clock
Sleep == 1
\* response.status_code == 200
HTTP_OK == 200
\* a status code other than 200
HTTP_ERR == 500

\* Python's None, for a string, for a number and for a deadline
None == "None"
NoneInt == -1

Min(a, b) == IF a < b THEN a ELSE b

\* s[a:b] of Python, for 0 <= a
PySlice(s, a, b) == SubSeq(s, a + 1, Min(b, Len(s)))

\* ------------------------------------------------------------- base64
\* A character of an output string is its base64 digit 0..63, PAD for '=',
\* JUNK for an ASCII character outside the alphabet, NONASCII otherwise.
PAD == 64
JUNK == 65
NONASCII == 66

Bytes == {65, 255}

ByteSeqs == UNION {[1..k -> Bytes] : k \in 0..MaxOut}

\* base64.b64encode, as the service encodes the accumulated output
RECURSIVE b64encode(_)
b64encode(b) ==
    IF Len(b) = 0 THEN <<>>
    ELSE IF Len(b) = 1 THEN
        <<b[1] \div 4, (b[1] % 4) * 16, PAD, PAD>>
    ELSE IF Len(b) = 2 THEN
        <<b[1] \div 4, (b[1] % 4) * 16 + b[2] \div 16, (b[2] % 16) * 4, PAD>>
    ELSE
        <<b[1] \div 4, (b[1] % 4) * 16 + b[2] \div 16,
          (b[2] % 16) * 4 + b[3] \div 64, b[3] % 64>>
        \o b64encode(SubSeq(b, 4, Len(b)))

\* binascii.a2b_base64 (not strict): st = [q |-> quad_pos, left |-> leftchar,
\* pads |-> pads, out |-> bytes so far, done |-> the padding ended the data]
RECURSIVE a2b_base64(_, _)
a2b_base64(s, st) ==
    IF Len(s) = 0 \/ st.done THEN st
    ELSE LET c == s[1]
             rest == SubSeq(s, 2, Len(s))
         IN  IF c = PAD THEN
                 IF st.q >= 2 /\ st.q + st.pads + 1 >= 4
                 THEN [st EXCEPT !.done = TRUE, !.q = 0]
                 ELSE a2b_base64(rest, [st EXCEPT !.pads = IF st.q >= 2 THEN st.pads + 1 ELSE st.pads])
             ELSE IF c > PAD THEN a2b_base64(rest, st)
             ELSE IF st.q = 0 THEN
                 a2b_base64(rest, [st EXCEPT !.q = 1, !.left = c, !.pads = 0])
             ELSE IF st.q = 1 THEN
                 a2b_base64(rest, [st EXCEPT !.q = 2, !.left = c % 16, !.pads = 0,
                                             !.out = Append(st.out, st.left * 4 + c \div 16)])
             ELSE IF st.q = 2 THEN
                 a2b_base64(rest, [st EXCEPT !.q = 3, !.left = c % 4, !.pads = 0,
                                             !.out = Append(st.out, st.left * 16 + c \div 4)])
             ELSE
                 a2b_base64(rest, [st EXCEPT !.q = 0, !.left = 0, !.pads = 0,
                                             !.out = Append(st.out, st.left * 64 + c)])

\* b64decode gone wrong: padding is taken for an error
b64decode_nopad(s) ==
    IF \E i \in 1..Len(s) : s[i] \in {PAD, NONASCII} THEN [ok |-> FALSE, val |-> <<>>]
    ELSE LET st == a2b_base64(s, [q |-> 0, left |-> 0, pads |-> 0, out |-> <<>>, done |-> FALSE])
         IN  IF st.q # 0 THEN [ok |-> FALSE, val |-> <<>>]
             ELSE [ok |-> TRUE, val |-> st.out]

\* base64.b64decode(bytes(output, 'ascii')): [ok |-> no exception, val |-> the bytes]
b64decode(s) ==
    IF \E i \in 1..Len(s) : s[i] = NONASCII THEN [ok |-> FALSE, val |-> <<>>]
    ELSE LET st == a2b_base64(s, [q |-> 0, left |-> 0, pads |-> 0, out |-> <<>>, done |-> FALSE])
         IN  IF st.q # 0 THEN [ok |-> FALSE, val |-> <<>>]
             ELSE [ok |-> TRUE, val |-> st.out]

\* ------------------------------------------------------------ options
\* An options dict: none = TRUE is Python's None; a key that is absent or
\* maps to None reads as None (options.get(key) is None).
NoOptions ==
    [none |-> TRUE, url |-> None, api_key |-> None, task_timeout |-> NoneInt,
     rate |-> NoneInt, log |-> NoneInt]

Opts ==
    { NoOptions,
      [none |-> FALSE, url |-> "u1", api_key |-> None, task_timeout |-> NoneInt,
       rate |-> 9600, log |-> NoneInt],
      [none |-> FALSE, url |-> None, api_key |-> "k2", task_timeout |-> 5,
       rate |-> 57600, log |-> 1] }

\* the identifiers the service gives its tasks (response.text)
TaskIds == {"t1", "t2"}

\* os.getcwd() + '/build/zephyr/zephyr.hex'
FirmwarePath == "cwd/build/zephyr/zephyr.hex"

VARIABLES
    self,       \* the handler object's fields
    pc,         \* "idle"; "read", "write": at the top of the call's loop;
                \* "read_resp", "write_resp": the service has answered
    n,          \* read_transport's n (kept after the call returns)
    end_time,   \* the running call's deadline, NoneInt for None
    ret,        \* read_transport's ret
    clock,      \* time.monotonic(), counted from the running call's entry
    cycles,     \* loop iterations of the running call that ended in sleep
    resp,       \* the request of the last step and the service's response
    last,       \* the last call: op, outcome ("pending" in its loop), the bytes
                \* a read returned, whether a write reopened the session, the
                \* options a constructor, flash or open_transport call was given
    polled,     \* a status request of this task was answered with 200
    session     \* the history since the transport was last opened, kept when
                \* session.on: the bytes successful reads returned, in order, and
                \* whether every snapshot extended the one before (the bytes are
                \* dropped once one did not)

vars == <<self, pc, n, end_time, ret, clock, cycles, resp, last, polled, session>>

\* ----------------------------------------------------------- responses
NoRequest ==
    [req |-> "none", code |-> 0, parsed |-> FALSE, status |-> None,
     outkind |-> "missing", output |-> <<>>, text |-> None]

\* output strings the service may send: every encoded output, and strings
\* that are no base64 encoding of any output
OutputStrings ==
    {b64encode(b) : b \in ByteSeqs}
    \cup { <<16>>, <<16, 16>>, <<16, JUNK, 16, PAD, PAD>>, <<16, 16, PAD, NONASCII>> }

\* responses to requests.get(url, params={'id': task_id})
GetResponses ==
    { [NoRequest EXCEPT !.req = "get", !.code = HTTP_ERR] }
    \cup { [NoRequest EXCEPT !.req = "get", !.code = HTTP_OK] }
    \cup { [NoRequest EXCEPT !.req = "get", !.code = HTTP_OK, !.parsed = TRUE,
                             !.status = s, !.outkind = k]
            : s \in {"finished", "running"}, k \in {"missing", "null"} }
    \cup { [NoRequest EXCEPT !.req = "get", !.code = HTTP_OK, !.parsed = TRUE,
                             !.status = s, !.outkind = "str", !.output = o]
            : s \in {"finished", "running"}, o \in OutputStrings }

\* responses to requests.post(url, params, files)
PostResponses ==
    { [NoRequest EXCEPT !.req = "post", !.code = HTTP_ERR] }
    \cup { [NoRequest EXCEPT !.req = "post", !.code = HTTP_OK, !.text = t] : t \in TaskIds }

\* b64decode of each output string the service may send
Decoded == [o \in OutputStrings \cup {<<>>} |-> b64decode(o)]

Timeouts == {NoneInt} \cup 0..MaxTimeout

\* what an iteration may take besides its sleep; without a deadline the clock is not read
Latencies(deadline) == IF deadline = NoneInt THEN {0} ELSE 0..MaxLatency

\* --------------------------------------------------- the handler's code
\* _set_options gone wrong: a key that is absent or None overwrites the field
_set_options_overwrite(s, options) ==
    IF options.none THEN s
    ELSE [s EXCEPT
            !.options = options, !.url = options.url, !.api_key = options.api_key,
            !.task_timeout = options.task_timeout, !.rate = options.rate,
            !.log = options.log]

_set_options(s, options) ==
    IF options.none THEN s
    ELSE [s EXCEPT
            !.options = options,
            !.url = IF options.url # None THEN options.url ELSE @,
            !.api_key = IF options.api_key # None THEN options.api_key ELSE @,
            !.task_timeout = IF options.task_timeout # NoneInt THEN options.task_timeout ELSE @,
            !.rate = IF options.rate # NoneInt THEN options.rate ELSE @,
            !.log = IF options.log # NoneInt THEN options.log ELSE @]

__init__(options) ==
    [ _set_options(
        [url |-> "https://cloud.all-hw.com/ci/usertask",
         api_key |-> "85282cff-fc94-4ed1-8633-6c74637e95e0",
         task_timeout |-> 20, rate |-> 115200, log |-> 0, options |-> NoOptions,
         task_id |-> None, closed |-> TRUE, readpos |-> 0, readbuf |-> <<>>,
         finished |-> FALSE, firmware |-> None],
        options)
      EXCEPT !.task_id = None, !.closed = TRUE, !.readpos = 0, !.readbuf = <<>>,
             !.finished = FALSE, !.firmware = None ]

\* lines 76-77 and 106-107: flash and open_transport want the transport closed
usage_check(s) == IF ~s.closed THEN "CITransportUsageError" ELSE "ok"

\* flash past that check
flash(s, options) ==
    [ _set_options([s EXCEPT !.firmware = FirmwarePath], options)
      EXCEPT !.readbuf = <<>>, !.finished = FALSE, !.closed = TRUE ]

\* open_transport gone wrong: the cursor is not reset (as in flash)
open_transport_keeps_pos(s, options) ==
    [ _set_options(s, options)
      EXCEPT !.readbuf = <<>>, !.finished = FALSE, !.closed = FALSE ]

\* open_transport past that check
open_transport(s, options) ==
    [ _set_options(s, options)
      EXCEPT !.readpos = 0, !.readbuf = <<>>, !.finished = FALSE, !.closed = FALSE ]

\* close_transport gone wrong: the task id is kept
close_transport_keeps_task(s) ==
    [ s EXCEPT !.closed = TRUE, !.readbuf = <<>> ]

\* close_transport gone wrong: it clears the finished flag too
close_transport_clears(s) ==
    [ s EXCEPT !.closed = TRUE, !.readbuf = <<>>, !.task_id = None, !.finished = FALSE ]

close_transport(s) ==
    [ s EXCEPT !.closed = TRUE, !.readbuf = <<>>, !.task_id = None ]

\* the implicit reopen gone wrong: it is left out
reopen_skip(s) == s

\* the implicit reopen gone wrong: the handler is set up anew from the last options
reopen_fresh(s) ==
    IF s.task_id # None
    THEN [__init__(s.options) EXCEPT !.closed = FALSE, !.firmware = s.firmware]
    ELSE s

\* write_transport, lines 227-229: what open_transport raises in the implicit reopen
reopen_error(s) ==
    IF s.task_id # None THEN usage_check(close_transport(s)) ELSE "ok"

\* write_transport, lines 227-229: the implicit close and reopen
reopen(s) ==
    IF s.task_id # None
    THEN LET c == close_transport(s)
         IN  IF usage_check(c) = "ok" THEN open_transport(c, c.options) ELSE c
    ELSE s

\* read_check gone wrong: the task id is looked at first
read_check_swapped(s) ==
    IF s.task_id = None THEN "CITransportUsageError"
    ELSE IF s.closed THEN "TransportClosedError"
    ELSE "ok"

\* lines 163-166
read_check(s) ==
    IF s.closed THEN "TransportClosedError"
    ELSE IF s.task_id = None THEN "CITransportUsageError"
    ELSE "ok"

\* write_check gone wrong: a closed transport is taken for a usage error
write_check_usage(s) ==
    IF s.closed \/ s.firmware = None THEN "CITransportUsageError" ELSE "ok"

\* lines 224-225
write_check(s) ==
    IF s.closed \/ s.firmware = None THEN "TransportClosedError" ELSE "ok"

\* must_poll gone wrong: the finished flag is not looked at
must_poll_nolatch(s) == Len(s.readbuf) <= s.readpos

\* read_transport, line 171: whether this iteration asks the service
must_poll(s) == Len(s.readbuf) <= s.readpos /\ ~s.finished

\* read_transport, lines 174-184: the handler after response r.  An
\* unparsed body is one response.json() or json['status'] raises on; output
\* "missing" is one json['output'] or bytes(output, 'ascii') raises on.
refresh(s, r) ==
    IF r.code # HTTP_OK \/ ~r.parsed THEN s
    ELSE LET f == [s EXCEPT !.finished = (r.status = "finished") \/ @]
             d == Decoded[r.output]
         IN  IF r.outkind = "str" /\ d.ok THEN [f EXCEPT !.readbuf = d.val] ELSE f

\* read_transport, line 186
portion(s, r, want) ==
    IF Len(s.readbuf) > s.readpos
    THEN PySlice(s.readbuf, s.readpos, s.readpos + want - Len(r))
    ELSE <<>>

\* read_outcome gone wrong: any bytes at all are returned at once
read_outcome_short(r, want, fin) ==
    IF Len(r) >= want \/ Len(r) > 0 THEN "return"
    ELSE IF fin THEN "raise"
    ELSE "wait"

\* read_outcome gone wrong: a short read at the end of the stream raises
read_outcome_strict(r, want, fin) ==
    IF Len(r) >= want THEN "return"
    ELSE IF fin THEN "raise"
    ELSE "wait"

\* read_outcome gone wrong: the end of the stream returns the empty result
read_outcome_empty(r, want, fin) ==
    IF Len(r) >= want THEN "return"
    ELSE IF fin THEN "return"
    ELSE "wait"

\* read_transport, lines 189-194: how the iteration goes on with r read so far
read_outcome(r, want, fin) ==
    IF Len(r) >= want THEN "return"
    ELSE IF fin THEN (IF Len(r) = 0 THEN "raise" ELSE "return")
    ELSE "wait"

\* read_transport, line 199
result(r, want) == IF Len(r) > want THEN PySlice(r, 0, want) ELSE r

\* expired gone wrong: the deadline is one sleep late
expired_late(deadline, now) == deadline # NoneInt /\ deadline + Sleep < now

\* lines 195 and 247: the deadline has passed
expired(deadline, now) == deadline # NoneInt /\ deadline < now

\* lines 168 and 234
deadline_of(timeout_sec, now) == IF timeout_sec = NoneInt THEN NoneInt ELSE now + timeout_sec

\* ------------------------------------------------------------- actions
Call(op, outcome, value, reopened) ==
    [op |-> op, outcome |-> outcome, value |-> value, reopened |-> reopened,
     options |-> NoOptions]

\* the call, made with options o, ends: with a value, or with an exception
ReturnWith(op, outcome, value, o) ==
    /\ pc' = "idle"
    /\ end_time' = NoneInt
    /\ ret' = <<>>
    /\ clock' = 0
    /\ cycles' = 0
    /\ last' = [Call(op, outcome, value, IF op = "write" /\ pc # "idle" THEN last.reopened ELSE FALSE)
                EXCEPT !.options = o]

\* a call that takes no options ends
Return(op, outcome, value) == ReturnWith(op, outcome, value, NoOptions)

\* the call enters its loop
Enter(op, timeout_sec, reopened) ==
    /\ pc' = op
    /\ clock' = 0
    /\ cycles' = 0
    /\ end_time' = deadline_of(timeout_sec, 0)
    /\ ret' = <<>>
    /\ last' = Call(op, "pending", <<>>, reopened)

\* time.sleep(0.5) after an iteration that took lat: the loop goes on.  The
\* clock is read only against a deadline, so it stands still without one.
SleepStep(loop, lat) ==
    /\ pc' = loop
    /\ UNCHANGED <<end_time, last>>
    /\ clock' = IF end_time = NoneInt THEN clock ELSE clock + lat + Sleep
    /\ cycles' = IF end_time = NoneInt THEN cycles ELSE cycles + 1

\* sequence a is a prefix of sequence b
IsPrefix(a, b) == Len(a) <= Len(b) /\ SubSeq(b, 1, Len(a)) = a

\* no history is kept
NoHistory == [on |-> FALSE, delivered |-> <<>>, mono |-> TRUE]

\* the session's history at open_transport, line 109
NewSession == [on |-> TRUE, delivered |-> <<>>, mono |-> TRUE]

\* the history g when open_transport starts a session
Reset(g) == IF g.on THEN NewSession ELSE g

\* the history g after an iteration of read_transport that replaced snapshot
\* old by new (line 183) and returned got (line 190 or 194)
Track(g, old, new, got) ==
    LET m == g.mono /\ IsPrefix(old, new)
    IN  IF g.on
        THEN [on |-> TRUE, delivered |-> IF m THEN g.delivered \o got ELSE <<>>,
              mono |-> m]
        ELSE g

\* the handler after construction
Start ==
    /\ \E o \in Opts :
        /\ self = __init__(o)
        /\ last = [Call("init", "ok", <<>>, FALSE) EXCEPT !.options = o]
    /\ pc = "idle"
    /\ n = 0
    /\ end_time = NoneInt
    /\ ret = <<>>
    /\ clock = 0
    /\ cycles = 0
    /\ resp = NoRequest
    /\ polled = FALSE

Init == Start /\ session = NoHistory

\* the same program, with the history of each session kept
InitDelivery == Start /\ session = NewSession

Flash ==
    /\ pc = "idle"
    /\ \E o \in Opts :
        /\ ReturnWith("flash", usage_check(self), <<>>, o)
        /\ self' = IF usage_check(self) = "ok" THEN flash(self, o) ELSE self
    /\ resp' = NoRequest
    /\ UNCHANGED <<n, polled, session>>

OpenTransport ==
    /\ pc = "idle"
    /\ \E o \in Opts :
        /\ ReturnWith("open", usage_check(self), <<>>, o)
        /\ self' = IF usage_check(self) = "ok" THEN open_transport(self, o) ELSE self
    /\ polled' = IF usage_check(self) = "ok" THEN FALSE ELSE polled
    /\ session' = IF usage_check(self) = "ok" THEN Reset(session) ELSE session
    /\ resp' = NoRequest
    /\ UNCHANGED n

CloseTransport ==
    /\ pc = "idle"
    /\ Return("close", "ok", <<>>)
    /\ self' = close_transport(self)
    /\ resp' = NoRequest
    /\ UNCHANGED <<n, polled, session>>

\* lines 163-169
ReadCall ==
    /\ pc = "idle"
    /\ resp' = NoRequest
    /\ UNCHANGED <<self, polled, session>>
    /\ \E want \in 0..MaxN, timeout_sec \in Timeouts :
        /\ n' = want
        /\ IF read_check(self) # "ok"
           THEN Return("read", read_check(self), <<>>)
           ELSE Enter("read", timeout_sec, FALSE)

\* lines 171-172: the iteration asks the service, which answers
ReadPoll ==
    /\ pc = "read"
    /\ must_poll(self)
    /\ pc' = "read_resp"
    /\ resp' \in GetResponses
    /\ polled' = (polled \/ resp'.code = HTTP_OK)
    /\ UNCHANGED <<self, n, end_time, ret, clock, cycles, last, session>>

\* lines 174-197: the rest of the iteration, with the response if it asked
ReadStep ==
    /\ \/ pc = "read_resp"
       \/ pc = "read" /\ ~must_poll(self)
    /\ LET s1 == IF pc = "read_resp" THEN refresh(self, resp) ELSE self
           p == portion(s1, ret, n)
           ret1 == ret \o p
           s2 == [s1 EXCEPT !.readpos = @ + Len(p)]
           how == read_outcome(ret1, n, s2.finished)
       IN  /\ self' = s2
           /\ session' = Track(session, self.readbuf, s1.readbuf,
                               IF how = "return" THEN result(ret1, n) ELSE <<>>)
           /\ IF how = "return" THEN Return("read", "ok", result(ret1, n))
              ELSE IF how = "raise" THEN Return("read", "IoTimeoutError", <<>>)
              ELSE \E lat \in Latencies(end_time) :
                  IF expired(end_time, clock + lat)
                  THEN Return("read", "IoTimeoutError", <<>>)
                  ELSE SleepStep("read", lat) /\ ret' = ret1
    /\ resp' = NoRequest
    /\ UNCHANGED <<n, polled>>

\* lines 224-234; the payload goes to the service and leaves no trace in the handler
WriteCall ==
    /\ pc = "idle"
    /\ resp' = NoRequest
    /\ UNCHANGED n
    /\ \E timeout_sec \in Timeouts :
        IF write_check(self) # "ok"
        THEN /\ Return("write", write_check(self), <<>>)
             /\ UNCHANGED <<self, polled, session>>
        ELSE IF reopen_error(self) # "ok"
        THEN /\ Return("write", reopen_error(self), <<>>)
             /\ self' = reopen(self)
             /\ UNCHANGED <<polled, session>>
        ELSE /\ self' = reopen(self)
             /\ polled' = FALSE
             /\ session' = IF self.task_id # None THEN Reset(session) ELSE session
             /\ Enter("write", timeout_sec, self.task_id # None)

\* lines 236-241: the iteration submits the task, and the service answers
WritePost ==
    /\ pc = "write"
    /\ pc' = "write_resp"
    /\ resp' \in PostResponses
    /\ UNCHANGED <<self, n, end_time, ret, clock, cycles, last, polled, session>>

\* lines 243-249: the rest of the iteration
WriteStep ==
    /\ pc = "write_resp"
    /\ IF resp.code = HTTP_OK THEN
           /\ self' = [self EXCEPT !.task_id = resp.text]
           /\ Return("write", "ok", <<>>)
       ELSE \E lat \in Latencies(end_time) :
           /\ UNCHANGED self
           /\ IF expired(end_time, clock + lat)
              THEN Return("write", "IoTimeoutError", <<>>)
              ELSE SleepStep("write", lat) /\ UNCHANGED ret
    /\ resp' = NoRequest
    /\ UNCHANGED <<n, polled, session>>

Next ==
    \/ Flash
    \/ OpenTransport
    \/ CloseTransport
    \/ ReadCall
    \/ ReadPoll
    \/ ReadStep
    \/ WriteCall
    \/ WritePost
    \/ WriteStep

Spec == Init /\ [][Next]_vars

SpecDelivery == InitDelivery /\ [][Next]_vars

\* ------------------------------------------------------------- claims
InRead == pc \in {"read", "read_resp"}
InWrite == pc \in {"write", "write_resp"}

\* a step that ends the running read_transport call by returning bytes
ReadReturns == InRead /\ pc' = "idle" /\ last'.outcome = "ok"

\* the unread bytes of buffer b at cursor pos
Unread(b, pos) == SubSeq(b, pos + 1, Len(b))

\* C1: a read_transport call that returns, returns at most n bytes, and
\* fewer than n only with the finished flag set when it returns.
C1_ReadLength ==
    [][ReadReturns =>
        /\ Len(last'.value) <= n
        /\ (Len(last'.value) < n => self'.finished)]_vars

\* a read has returned fewer bytes than asked, at the end of the stream
C1_Witness ==
    /\ last.op = "read" /\ last.outcome = "ok"
    /\ Len(last.value) < n
    /\ self.finished

\* C2: in a session whose buffer is empty, cursor 0 and finished flag clear
\* (as after open and write), a status response "finished" with the base64
\* encoding of O makes read_transport(len(O)) return exactly O.
C2_RoundTrip ==
    [][\A O \in ByteSeqs :
        ( /\ pc = "read_resp"
          /\ self.readpos = 0 /\ self.readbuf = <<>> /\ ~self.finished /\ ret = <<>>
          /\ resp.code = HTTP_OK /\ resp.parsed /\ resp.status = "finished"
          /\ resp.outkind = "str" /\ resp.output = b64encode(O)
          /\ n = Len(O) )
        => (pc' = "idle" /\ last'.outcome = "ok" /\ last'.value = O)]_vars

\* a read of MaxOut bytes has returned the whole output of a finished task
C2_Witness ==
    /\ last.op = "read" /\ last.outcome = "ok"
    /\ n = MaxOut /\ Len(last.value) = MaxOut
    /\ self.finished /\ self.readbuf = last.value /\ self.readpos = MaxOut

\* C3: when the task is finished and k unread bytes are left, 0 < k < what
\* the call still needs, the iteration returns ret and exactly those k bytes:
\* no exception, no sleep.
C3_ShortRead ==
    [][( /\ InRead
         /\ self'.finished
         /\ Len(self'.readbuf) - self.readpos > 0
         /\ Len(self'.readbuf) - self.readpos < n - Len(ret) )
       => ( /\ pc' = "idle"
            /\ last'.outcome = "ok"
            /\ last'.value = ret \o Unread(self'.readbuf, self.readpos) )]_vars

\* a short read: one byte returned to a call that asked for more, the buffer drained
C3_Witness ==
    /\ last.op = "read" /\ last.outcome = "ok"
    /\ Len(last.value) = 1 /\ n > 1
    /\ self.finished /\ self.readpos = Len(self.readbuf)

\* C4: a read_transport(n), n >= 1, that has read nothing and finds the task
\* finished with no unread byte raises IoTimeoutError, whatever its deadline.
C4_ZeroOutput ==
    [][( /\ InRead
         /\ n >= 1 /\ ret = <<>>
         /\ self'.finished
         /\ Len(self'.readbuf) <= self.readpos )
       => (pc' = "idle" /\ last'.outcome = "IoTimeoutError")]_vars

\* a read on a finished task with no output at all has raised IoTimeoutError
C4_Witness ==
    /\ last.op = "read" /\ last.outcome = "IoTimeoutError"
    /\ self.finished /\ self.readbuf = <<>> /\ n >= 1

MaxSleeps(deadline) == deadline \div Sleep + 1

\* the service has given this call (and, for a read, this task) no 200 response
NoSuccess ==
    \/ pc = "read_resp" /\ ~polled
    \/ pc = "write_resp" /\ resp.code # HTTP_OK

\* what C6 says of a step of a call with a deadline that got no success response
TimeoutStep ==
    /\ (pc' = "idle" => last'.outcome = "IoTimeoutError")
    /\ (pc' # "idle" => cycles' = cycles + 1 /\ clock' >= clock + Sleep)
    /\ (cycles = MaxSleeps(end_time) => pc' = "idle")

\* a call with a deadline sleeps at most timeout/interval + 1 times, and its loop never blocks
BoundedCycles ==
    (pc # "idle" /\ end_time # NoneInt) =>
        /\ cycles <= MaxSleeps(end_time)
        /\ ENABLED (ReadPoll \/ ReadStep \/ WritePost \/ WriteStep)

\* C6 as stated: with a finite timeout and a service that gives no success
\* response, write_transport and read_transport run a bounded number of
\* iterations (at most timeout/interval + 2) and end by IoTimeoutError.
C6_Original ==
    /\ []BoundedCycles
    /\ [][(NoSuccess /\ end_time # NoneInt) => TimeoutStep]_vars

\* C6 amended: the same, for write_transport and for read_transport(n) with
\* n >= 1; read_transport(0) returns the empty result after its first poll.
C6_Timeout ==
    /\ []BoundedCycles
    /\ [][(NoSuccess /\ end_time # NoneInt /\ (pc = "read_resp" => n >= 1)) => TimeoutStep]_vars

\* a read has timed out on a task the service never answered a poll of
C6_Witness ==
    /\ last.op = "read" /\ last.outcome = "IoTimeoutError" /\ n >= 1
    /\ ~polled /\ self.task_id # None /\ ~self.finished

\* C7: close_transport leaves the transport closed, the buffer empty and no
\* task id; on a closed transport, and right after another close, it changes
\* nothing; closing the state it leaves gives that state again.
C7_CloseIdempotent ==
    [][(pc = "idle" /\ last'.op = "close") =>
        /\ last'.outcome = "ok"
        /\ self'.closed /\ self'.readbuf = <<>> /\ self'.task_id = None
        /\ (self.closed => self' = self)
        /\ (last.op = "close" => self' = self)
        /\ close_transport(self') = self']_vars

\* a close has ended a session with a task and consumed output
C7_Witness ==
    /\ last.op = "close" /\ self.closed
    /\ self.readpos > 0 /\ self.finished /\ self.task_id = None

\* a step of write_transport's implicit close and reopen
ReopenStep == pc = "idle" /\ pc' = "write" /\ self.task_id # None

\* C8 as stated: the finished flag, once set, is cleared only by an open
\* after a close (open_transport on the closed transport, or the close and
\* reopen inside write_transport).
C8_Original ==
    [][(self.finished /\ ~self'.finished) =>
        \/ (pc = "idle" /\ last'.op = "open" /\ last'.outcome = "ok" /\ self.closed)
        \/ ReopenStep]_vars

\* C8 amended: the finished flag, once set, stays set while the transport is
\* open and through close_transport; it is cleared only by flash or
\* open_transport on the closed transport, or by the close and reopen inside
\* write_transport.
C8_FinishedLatch ==
    [][(self.finished /\ ~self'.finished) =>
        \/ ( /\ pc = "idle" /\ last'.op \in {"open", "flash"}
             /\ last'.outcome = "ok" /\ self.closed )
        \/ ReopenStep]_vars

\* the flag has outlived a close
C8_Witness ==
    /\ self.finished /\ self.closed /\ last.op = "close"

\* C9: flash and open_transport on an open transport raise
\* CITransportUsageError and change nothing of the handler; on a closed one
\* they succeed, flash leaving it closed, open_transport leaving it open with
\* cursor 0, empty buffer and finished clear.
C9_FlashOpen ==
    [][(pc = "idle" /\ last'.op \in {"flash", "open"}) =>
        IF ~self.closed
        THEN last'.outcome = "CITransportUsageError" /\ self' = self
        ELSE /\ last'.outcome = "ok"
             /\ (last'.op = "flash" => self'.closed /\ self'.firmware # None)
             /\ (last'.op = "open" =>
                    /\ ~self'.closed /\ self'.readpos = 0
                    /\ self'.readbuf = <<>> /\ ~self'.finished)]_vars

\* an open_transport has failed on an open session and left its state
C9_Witness ==
    /\ last.op = "open" /\ last.outcome = "CITransportUsageError"
    /\ ~self.closed /\ self.finished /\ self.readpos > 0

\* C10: write_transport on a closed transport or without firmware, and
\* read_transport on a closed transport, raise TransportClosedError;
\* read_transport on an open transport without a task id raises
\* CITransportUsageError; none of them sends a request or changes the handler.
C10_Preconditions ==
    [][(pc = "idle" /\ last'.op \in {"read", "write"}) =>
        LET refused(e) == /\ last'.outcome = e /\ pc' = "idle"
                          /\ resp' = NoRequest /\ self' = self
        IN  /\ (last'.op = "write" /\ (self.closed \/ self.firmware = None))
               => refused("TransportClosedError")
            /\ (last'.op = "read" /\ self.closed) => refused("TransportClosedError")
            /\ (last'.op = "read" /\ ~self.closed /\ self.task_id = None)
               => refused("CITransportUsageError")]_vars

\* a read has been refused on a transport that was opened but never written to
C10_Witness ==
    /\ last.op = "read" /\ last.outcome = "CITransportUsageError"
    /\ ~self.closed /\ self.task_id = None /\ self.firmware # None

\* a step that ends a write_transport call, at its checks or in its loop
WriteEnds == (pc = "idle" \/ InWrite) /\ pc' = "idle" /\ last'.op = "write"

\* C11: a write_transport call that fails leaves no task id; a task id is
\* recorded only by a write_transport call that returns, and it is the
\* identifier of the success response that call got.
C11_NoPartialWrite ==
    [][ /\ (WriteEnds /\ last'.outcome # "ok") => self'.task_id = None
        /\ (self'.task_id # None /\ self'.task_id # self.task_id)
           => ( /\ pc = "write_resp" /\ pc' = "idle" /\ last'.outcome = "ok"
                /\ resp.code = HTTP_OK /\ self'.task_id = resp.text )
      ]_vars

\* a write on a session that had a task has timed out and left no task id
C11_Witness ==
    /\ last.op = "write" /\ last.outcome = "IoTimeoutError" /\ last.reopened
    /\ self.task_id = None /\ ~self.closed

\* C12: a read_transport call that fails with IoTimeoutError leaves the
\* cursor within the buffer and has consumed nothing: no byte was moved into
\* ret, and so lost, by the failing call.
C12_FailedRead ==
    [][(InRead /\ pc' = "idle" /\ last'.outcome = "IoTimeoutError") =>
        /\ self'.readpos <= Len(self'.readbuf)
        /\ ret = <<>>
        /\ self'.readpos = self.readpos]_vars

\* the configuration fields of handler s
Config(s) == <<s.url, s.api_key, s.task_timeout, s.rate, s.log>>

\* the configuration s has after overrides o: a field of o that is not None
\* replaces the field of s
Merged(s, o) ==
    << IF o.url # None THEN o.url ELSE s.url,
       IF o.api_key # None THEN o.api_key ELSE s.api_key,
       IF o.task_timeout # NoneInt THEN o.task_timeout ELSE s.task_timeout,
       IF o.rate # NoneInt THEN o.rate ELSE s.rate,
       IF o.log # NoneInt THEN o.log ELSE s.log >>

\* the configuration a handler starts from
Defaults ==
    [url |-> "https://cloud.all-hw.com/ci/usertask",
     api_key |-> "85282cff-fc94-4ed1-8633-6c74637e95e0",
     task_timeout |-> 20, rate |-> 115200, log |-> 0]

\* a flash or open_transport call
FlashOrOpen == pc = "idle" /\ last'.op \in {"flash", "open"}

\* the constructor merges its options into the defaults
ConstructorMerges == last.op = "init" => Config(self) = Merged(Defaults, last.options)

\* C13 as stated: every constructor, flash and open_transport call merges its
\* options into the configuration field by field; no other step changes it.
C13_Original ==
    /\ []ConstructorMerges
    /\ [][IF FlashOrOpen
          THEN Config(self') = Merged(self, last'.options)
          ELSE Config(self') = Config(self)]_vars

\* C13 amended: the constructor and every flash and open_transport call that
\* succeeds merge their options field by field; a flash or open_transport
\* refused with CITransportUsageError, and every close, read and write step,
\* leaves the configuration unchanged.
C13_ConfigMerge ==
    /\ []ConstructorMerges
    /\ [][IF FlashOrOpen /\ last'.outcome = "ok"
          THEN Config(self') = Merged(self, last'.options)
          ELSE Config(self') = Config(self)]_vars

\* an open_transport has overridden part of a configuration a flash had set
C13_Witness ==
    /\ last.op = "open" /\ last.outcome = "ok" /\ ~last.options.none
    /\ self.url = "u1" /\ self.api_key = "k2" /\ self.rate = 9600

\* a read_transport or write_transport call on a closed transport
ClosedCall == pc = "idle" /\ last'.op \in {"read", "write"} /\ self.closed

\* C14 as stated: read_transport and write_transport on a transport that is
\* not open raise CITransportUsageError.
C14_Original ==
    [][ClosedCall => last'.outcome = "CITransportUsageError"]_vars

\* C14 amended: read_transport and write_transport on a transport that is not
\* open raise TransportClosedError; CITransportUsageError is raised only by
\* flash and open_transport on an open transport and by read_transport on an
\* open transport without a task id.
C14_ClosedError ==
    [][ /\ ClosedCall => last'.outcome = "TransportClosedError"
        /\ (pc = "idle" /\ last'.outcome = "CITransportUsageError")
           => \/ last'.op \in {"flash", "open"} /\ ~self.closed
              \/ last'.op = "read" /\ ~self.closed /\ self.task_id = None
      ]_vars

\* a write on a flashed but closed transport has raised TransportClosedError
C14_Witness ==
    /\ last.op = "write" /\ last.outcome = "TransportClosedError"
    /\ self.closed /\ self.firmware # None

\* C15: the read cursor is never beyond the end of the read buffer.
C15_CursorBound == self.readpos <= Len(self.readbuf)

\* C16: a task id is present only on an open transport with a firmware
\* reference; the handler holds one task id, an identifier of the service.
C16_TaskIdOpen ==
    /\ self.task_id # None => (~self.closed /\ self.firmware # None)
    /\ self.task_id \in TaskIds \cup {None}

\* a session with a task whose output has been read to the end
C16_Witness ==
    /\ self.task_id # None /\ ~self.closed /\ self.finished /\ polled
    /\ pc = "idle"

\* C17: a status request is sent only from read_transport's loop, for a
\* task, when the buffer has no unread byte and the finished flag is clear.
C17_Polling ==
    [][(resp'.req = "get" /\ pc # "read_resp") =>
        /\ pc = "read" /\ self.task_id # None
        /\ ~self.finished
        /\ Len(self.readbuf) <= self.readpos]_vars

\* a call polls again after it has drained the buffer
C17_Witness ==
    /\ pc = "read_resp" /\ Len(ret) > 0
    /\ self.readpos = Len(self.readbuf) /\ ~self.finished

\* a status response the handler cannot use: not 200, or a body that
\* response.json(), json['status'], json['output'], bytes() or b64decode raises on
Malformed(r) ==
    /\ r.req = "get"
    /\ \/ r.code # HTTP_OK
       \/ ~r.parsed
       \/ r.outkind = "missing"
       \/ r.outkind = "str" /\ ~Decoded[r.output].ok

\* C18: a status response that is not 200 or is malformed leaves the buffer
\* and the cursor as they are, and the call (n >= 1) then goes on polling: it
\* ends in that iteration only by IoTimeoutError at its deadline.
C18_Malformed ==
    [][(pc = "read_resp" /\ Malformed(resp) /\ n >= 1) =>
        /\ self'.readbuf = self.readbuf
        /\ self'.readpos = self.readpos
        /\ pc' = "idle" =>
             ( /\ last'.outcome = "IoTimeoutError"
               /\ end_time # NoneInt
               /\ ~self'.finished )]_vars

\* C19: in a session in which every snapshot has extended the one before,
\* the bytes the successful reads have returned, in order, are a prefix of the
\* latest snapshot: none delivered twice, none skipped.
C19_Delivery ==
    (session.on /\ ~self.closed /\ session.mono)
        => IsPrefix(session.delivered, self.readbuf)

====
